---- MODULE Spec2Model ----
(***************************************************************************)
(* backend/database.py: the async SQLAlchemy engine (a QueuePool of        *)
(* pool_size connections plus max_overflow burst connections), the         *)
(* per-request session generator get_db, and the lifecycle hooks init_db   *)
(* and close_db.                                                           *)
(*                                                                         *)
(* Three specifications share the pool operators:                          *)
(*   Spec        every await of get_db for a few request tasks, with       *)
(*               close_db at any moment;                                   *)
(*   SpecPool    many concurrent get_db scopes, tracked by how many hold   *)
(*               a connection, up to and beyond pool exhaustion;           *)
(*   SpecSchema  init_db over a registry of entity tables and a database   *)
(*               that already holds some of them.                          *)
(***************************************************************************)
EXTENDS Integers, Sequences, FiniteSets, TLC

\* create_async_engine(..., pool_size=20, max_overflow=10, ...)
pool_size == 20
max_overflow == 10

\* Request tasks whose get_db generator is followed await by await (Spec).
NumTasks == 2
\* Concurrent get_db scopes tracked by count (SpecPool).
MaxScopes == 32
\* Entity tables an application may declare on Base (SpecSchema).
NumTables == 3

Tasks == 1..NumTasks
TableNames == 1..NumTables

VARIABLES
    pool,       \* engine.pool: [idle, overflow], the QueuePool's queue size and _overflow
    task,       \* Spec: per request task, the position in get_db and its session
    load,       \* SpecPool: [opened, holding, orphaned] counts of get_db scopes
    lastOp,     \* the operation run last: a lifecycle hook and its calls in succession, or another
    metadata,   \* Base.metadata: the table names registered by entity classes
    tables,     \* the tables existing in the database
    created,    \* the tables the last init_db issued CREATE TABLE for
    initErr     \* the error the last init_db raised, or "none"

vars == <<pool, task, load, lastOp, metadata, tables, created, initErr>>

schemaVars == <<metadata, tables, created, initErr>>

\* lastOp after an operation that is no lifecycle hook.
Other == [op |-> "other", n |-> 0]

\* lastOp after a call of the lifecycle hook op: its calls in succession,
\* counted up to two.
Called(op) ==
    [op |-> op, n |-> IF lastOp.op = op /\ lastOp.n >= 1 THEN 2 ELSE 1]

----------------------------------------------------------------------------
(* The QueuePool behind the engine.                                        *)

\* A newly constructed QueuePool: an empty queue, _overflow = 0 - pool_size.
fresh_pool == [idle |-> 0, overflow |-> 0 - pool_size]

\* QueuePool.checkedout(): maxsize - qsize + _overflow.
checkedout(p) == pool_size - p.idle + p.overflow

\* QueuePool._do_get with the overflow test off by one: one connection more
\* than max_overflow allows.
QueuePoolGet_offByOne(p) ==
    IF p.idle > 0
    THEN [ok |-> TRUE, pool |-> [p EXCEPT !.idle = @ - 1]]
    ELSE IF p.overflow <= max_overflow
         THEN [ok |-> TRUE, pool |-> [p EXCEPT !.overflow = @ + 1]]
         ELSE [ok |-> FALSE, pool |-> p]

\* QueuePool._do_get: an idle connection from the queue; else, while
\* _overflow < max_overflow, a new connection; else the caller waits
\* (ok = FALSE) until a return or the pool timeout.
QueuePoolGet(p) ==
    IF p.idle > 0
    THEN [ok |-> TRUE, pool |-> [p EXCEPT !.idle = @ - 1]]
    ELSE IF p.overflow < max_overflow
         THEN [ok |-> TRUE, pool |-> [p EXCEPT !.overflow = @ + 1]]
         ELSE [ok |-> FALSE, pool |-> p]

\* QueuePool._do_return_conn: back into the queue; a full queue closes the
\* connection and decrements _overflow.
QueuePoolReturn(p) ==
    IF p.idle < pool_size
    THEN [p EXCEPT !.idle = @ + 1]
    ELSE [p EXCEPT !.overflow = @ - 1]

\* A dispose that closes the idle connections and keeps the pool, its
\* _overflow counter still counting them.
dispose_keep_counters(p) == [p EXCEPT !.idle = 0]

\* A dispose that closes one idle connection per call.
dispose_one(p) ==
    IF p.idle > 0 THEN [p EXCEPT !.idle = @ - 1, !.overflow = @ - 1] ELSE p

\* Engine.dispose(): the idle connections are closed and the engine gets a
\* newly created pool; connections checked out stay with the old pool.
dispose(p) == fresh_pool

----------------------------------------------------------------------------
(* Exceptions.                                                             *)

\* What the request handler may raise into the generator at the yield.
CallerErrors == {"ValueError", "HTTPException"}
\* asyncio.CancelledError and GeneratorExit derive from BaseException only.
BaseExceptions == {"CancelledError", "GeneratorExit"}

\* A narrower clause, `except ValueError:`.
except_ValueError(e) == e = "ValueError"

\* `except Exception:` matches every exception but the BaseException-only ones.
except_Exception(e) == e \notin BaseExceptions

----------------------------------------------------------------------------
(* Sessions.                                                               *)

\* The session a task has before get_db is called.
NoSession ==
    [pc |-> "idle", conn |-> "none", txn |-> "none", log |-> <<>>,
     path |-> "none", raised |-> "none", exc |-> "none"]

Count(s, e) == Cardinality({i \in DOMAIN s : s[i] = e})

\* The pool after a session went from s to s2: a connection of the engine's
\* current pool that the session no longer holds was returned to it; one of
\* a disposed pool goes back to that pool.
PoolAfter(s, s2, p) ==
    IF s.conn = "cur" /\ s2.conn = "none" THEN QueuePoolReturn(p) ELSE p

\* A close that leaves the transaction and its connection with the session.
session_close_keep(s) == [s EXCEPT !.log = Append(@, "close")]

\* AsyncSession.close(): an open transaction is rolled back, the
\* connection released; closing a closed session changes nothing more.
session_close(s) ==
    [s EXCEPT !.conn = "none",
              !.txn = IF @ = "active" THEN "rolledback" ELSE @,
              !.log = Append(@, "close")]

\* An exception e is raised inside the try block: the clause
\* `except Exception` (line 45) takes it if it matches, else control passes
\* straight to the finally clause.
Raise(s, e) ==
    [s EXCEPT !.pc = IF except_Exception(e) THEN "rollback" ELSE "finally",
              !.exc = e]

\* An exception e arrives at the yield (line 43), thrown in by the caller.
Throw(s, e, path) == [Raise(s, e) EXCEPT !.raised = e, !.path = path]

----------------------------------------------------------------------------
(* Spec: get_db, await by await.                                           *)

\* What a step of a request task leaves alone.
NoHook == lastOp' = Other /\ UNCHANGED <<load, schemaVars>>

\* get_db is called: async_session() makes a session, which is yielded.
\* The session holds no connection until it is first used.
get_db(t) ==
    /\ task[t].pc = "idle"
    /\ task' = [task EXCEPT ![t] =
                  [NoSession EXCEPT !.pc = "yielded", !.log = <<"acquire">>]]
    /\ UNCHANGED pool /\ NoHook

\* The handler first uses the session: a transaction begins on a connection
\* checked out of the pool. With the pool exhausted the task stays suspended.
UseSession(t) ==
    /\ task[t].pc = "yielded"
    /\ task[t].conn = "none"
    /\ QueuePoolGet(pool).ok
    /\ pool' = QueuePoolGet(pool).pool
    /\ task' = [task EXCEPT ![t].conn = "cur", ![t].txn = "active"]
    /\ NoHook

\* get_db without line 44: the handler returns and nothing is committed.
BodyReturns_skipCommit(t) ==
    /\ task[t].pc = "yielded"
    /\ task' = [task EXCEPT ![t].pc = "finally", ![t].path = "return"]
    /\ UNCHANGED pool /\ NoHook

\* get_db closing the session before it commits.
BodyReturns_closeFirst(t) ==
    /\ task[t].pc = "yielded"
    /\ LET s2 == [session_close(task[t]) EXCEPT !.pc = "commit", !.path = "return"]
       IN /\ task' = [task EXCEPT ![t] = s2]
          /\ pool' = PoolAfter(task[t], s2, pool)
    /\ NoHook

\* The handler returns: the generator resumes after the yield.
BodyReturns(t) ==
    /\ task[t].pc = "yielded"
    /\ task' = [task EXCEPT ![t].pc = "commit", ![t].path = "return"]
    /\ UNCHANGED pool /\ NoHook

\* The handler raises e, which is thrown into the generator at the yield.
BodyRaises(t, e) ==
    /\ task[t].pc = "yielded"
    /\ task' = [task EXCEPT ![t] = Throw(@, e, "raise")]
    /\ UNCHANGED pool /\ NoHook

\* The task is cancelled while the generator is suspended at the yield.
Cancel(t) ==
    /\ task[t].pc = "yielded"
    /\ task' = [task EXCEPT ![t] = Throw(@, "CancelledError", "cancel")]
    /\ UNCHANGED pool /\ NoHook

\* The generator is closed (aclose) while suspended at the yield.
GeneratorClose(t) ==
    /\ task[t].pc = "yielded"
    /\ task' = [task EXCEPT ![t] = Throw(@, "GeneratorExit", "aclose")]
    /\ UNCHANGED pool /\ NoHook

\* await session.commit() succeeds: the transaction, if one was begun, is
\* committed and its connection released.
CommitOk(t) ==
    /\ task[t].pc = "commit"
    /\ LET s2 == [task[t] EXCEPT !.pc = "finally",
                                 !.txn = IF @ = "active" THEN "committed" ELSE @,
                                 !.conn = "none", !.log = Append(@, "commit_ok")]
       IN /\ task' = [task EXCEPT ![t] = s2]
          /\ pool' = PoolAfter(task[t], s2, pool)
    /\ NoHook

\* get_db with the commit outside the try block: its error skips the rollback.
CommitFails_noRollback(t) ==
    /\ task[t].pc = "commit"
    /\ task' = [task EXCEPT ![t].pc = "finally", ![t].exc = "CommitError",
                            ![t].log = Append(@, "commit_failed")]
    /\ UNCHANGED pool /\ NoHook

\* await session.commit() raises: the except clause takes the error.
CommitFails(t) ==
    /\ task[t].pc = "commit"
    /\ LET s2 == [task[t] EXCEPT !.log = Append(@, "commit_failed")]
       IN task' = [task EXCEPT ![t] = Raise(s2, "CommitError")]
    /\ UNCHANGED pool /\ NoHook

\* get_db without line 47: the error is swallowed after the rollback.
RollbackOk_swallow(t) ==
    /\ task[t].pc = "rollback"
    /\ LET s2 == [task[t] EXCEPT !.pc = "finally",
                                 !.txn = IF @ = "active" THEN "rolledback" ELSE @,
                                 !.conn = "none", !.exc = "none",
                                 !.log = Append(@, "rollback_ok")]
       IN /\ task' = [task EXCEPT ![t] = s2]
          /\ pool' = PoolAfter(task[t], s2, pool)
    /\ NoHook

\* await session.rollback() succeeds; `raise` re-raises the error in hand.
RollbackOk(t) ==
    /\ task[t].pc = "rollback"
    /\ LET s2 == [task[t] EXCEPT !.pc = "finally",
                                 !.txn = IF @ = "active" THEN "rolledback" ELSE @,
                                 !.conn = "none", !.log = Append(@, "rollback_ok")]
       IN /\ task' = [task EXCEPT ![t] = s2]
          /\ pool' = PoolAfter(task[t], s2, pool)
    /\ NoHook

\* await session.rollback() raises: its error replaces the one in hand; the
\* session has dropped the transaction and its connection all the same.
RollbackFails(t) ==
    /\ task[t].pc = "rollback"
    /\ LET s2 == [task[t] EXCEPT !.pc = "finally",
                                 !.txn = IF @ = "active" THEN "rolledback" ELSE @,
                                 !.conn = "none", !.exc = "RollbackError",
                                 !.log = Append(@, "rollback_failed")]
       IN /\ task' = [task EXCEPT ![t] = s2]
          /\ pool' = PoolAfter(task[t], s2, pool)
    /\ NoHook

\* finally: await session.close().
Finally(t) ==
    /\ task[t].pc = "finally"
    /\ LET s2 == [session_close(task[t]) EXCEPT !.pc = "aexit"]
       IN /\ task' = [task EXCEPT ![t] = s2]
          /\ pool' = PoolAfter(task[t], s2, pool)
    /\ NoHook

\* The `async with` block is left: AsyncSession.__aexit__ closes the session
\* once more, and the error in hand, if any, leaves get_db.
AExit(t) ==
    /\ task[t].pc = "aexit"
    /\ LET s2 == [session_close(task[t]) EXCEPT !.pc = "done"]
       IN /\ task' = [task EXCEPT ![t] = s2]
          /\ pool' = PoolAfter(task[t], s2, pool)
    /\ NoHook

\* The request is over; the task serves the next one.
NextRequest(t) ==
    /\ task[t].pc = "done"
    /\ task' = [task EXCEPT ![t] = NoSession]
    /\ UNCHANGED pool /\ NoHook

\* close_db: await engine.dispose(). Sessions keep the connections they
\* hold, which now belong to the disposed pool.
close_db ==
    /\ pool' = dispose(pool)
    /\ task' = [t \in Tasks |->
                  IF task[t].conn = "cur" THEN [task[t] EXCEPT !.conn = "orphan"]
                  ELSE task[t]]
    /\ load' = [load EXCEPT !.holding = 0, !.orphaned = @ + load.holding]
    /\ lastOp' = Called("close_db")
    /\ UNCHANGED schemaVars

Init ==
    /\ pool = fresh_pool
    /\ task = [t \in Tasks |-> NoSession]
    /\ load = [opened |-> 0, holding |-> 0, orphaned |-> 0]
    /\ lastOp = Other
    /\ metadata = {}
    /\ tables = {}
    /\ created = {}
    /\ initErr = "none"

Next ==
    \/ \E t \in Tasks : get_db(t)
    \/ \E t \in Tasks : UseSession(t)
    \/ \E t \in Tasks : BodyReturns(t)
    \/ \E t \in Tasks, e \in CallerErrors : BodyRaises(t, e)
    \/ \E t \in Tasks : Cancel(t)
    \/ \E t \in Tasks : GeneratorClose(t)
    \/ \E t \in Tasks : CommitOk(t)
    \/ \E t \in Tasks : CommitFails(t)
    \/ \E t \in Tasks : RollbackOk(t)
    \/ \E t \in Tasks : RollbackFails(t)
    \/ \E t \in Tasks : Finally(t)
    \/ \E t \in Tasks : AExit(t)
    \/ \E t \in Tasks : NextRequest(t)
    \/ close_db

Spec == Init /\ [][Next]_vars

----------------------------------------------------------------------------
(* SpecPool: many get_db scopes at once, tracked by count.                 *)

\* The get_db scopes now open.
scopes == load.opened + load.holding + load.orphaned

\* get_db is called and yields a session, which holds no connection yet.
OpenScope ==
    /\ scopes < MaxScopes
    /\ load' = [load EXCEPT !.opened = @ + 1]
    /\ lastOp' = Other
    /\ UNCHANGED <<pool, task, schemaVars>>

\* A scope's handler first uses its session: a connection is checked out.
\* With the pool exhausted the scope's task stays suspended.
Checkout ==
    /\ load.opened > 0
    /\ QueuePoolGet(pool).ok
    /\ pool' = QueuePoolGet(pool).pool
    /\ load' = [load EXCEPT !.opened = @ - 1, !.holding = @ + 1]
    /\ lastOp' = Other
    /\ UNCHANGED <<task, schemaVars>>

\* A suspended checkout runs into the pool timeout: TimeoutError is raised
\* in the handler, and the scope is left through except and finally
\* without a connection.
PoolTimeout ==
    /\ load.opened > 0
    /\ ~QueuePoolGet(pool).ok
    /\ load' = [load EXCEPT !.opened = @ - 1]
    /\ lastOp' = Other
    /\ UNCHANGED <<pool, task, schemaVars>>

\* A scope whose session was never used is left.
ExitUnused ==
    /\ load.opened > 0
    /\ load' = [load EXCEPT !.opened = @ - 1]
    /\ lastOp' = Other
    /\ UNCHANGED <<pool, task, schemaVars>>

\* A scope holding a connection of the engine's pool is left: commit or
\* rollback, then close, return the connection.
Release ==
    /\ load.holding > 0
    /\ pool' = QueuePoolReturn(pool)
    /\ load' = [load EXCEPT !.holding = @ - 1]
    /\ lastOp' = Other
    /\ UNCHANGED <<task, schemaVars>>

\* A scope holding a connection of a disposed pool is left.
ReleaseOrphan ==
    /\ load.orphaned > 0
    /\ load' = [load EXCEPT !.orphaned = @ - 1]
    /\ lastOp' = Other
    /\ UNCHANGED <<pool, task, schemaVars>>

NextPool ==
    \/ OpenScope
    \/ Checkout
    \/ PoolTimeout
    \/ ExitUnused
    \/ Release
    \/ ReleaseOrphan
    \/ close_db

SpecPool == Init /\ [][NextPool]_vars

----------------------------------------------------------------------------
(* SpecSchema: init_db.                                                    *)

\* MetaData.create_all(conn, checkfirst): the registered tables in order;
\* with checkfirst a table the database has is skipped; CREATE TABLE of a
\* table the database has fails.
RECURSIVE CreateFrom(_, _, _, _, _)
CreateFrom(i, md, db, made, checkfirst) ==
    IF i > NumTables
    THEN [tables |-> db, created |-> made, err |-> "none"]
    ELSE IF i \notin md \/ (checkfirst /\ i \in db)
         THEN CreateFrom(i + 1, md, db, made, checkfirst)
         ELSE IF i \in db
              THEN [tables |-> db, created |-> made \cup {i}, err |-> "DuplicateTable"]
              ELSE CreateFrom(i + 1, md, db \cup {i}, made \cup {i}, checkfirst)

\* create_all(conn, checkfirst=False).
create_all_nocheck(md, db) == CreateFrom(1, md, db, {}, FALSE)

\* Base.metadata.create_all, called with its default checkfirst=True.
create_all(md, db) == CreateFrom(1, md, db, {}, TRUE)

\* An entity class is declared on Base: its table joins Base.metadata.
DeclareModel(n) ==
    /\ n \notin metadata
    /\ metadata' = metadata \cup {n}
    /\ lastOp' = Other
    /\ UNCHANGED <<pool, task, load, tables, created, initErr>>

\* init_db: create_all inside engine.begin(), on a connection checked out of
\* the pool and returned to it; an error rolls the transaction back.
init_db ==
    /\ QueuePoolGet(pool).ok
    /\ pool' = QueuePoolReturn(QueuePoolGet(pool).pool)
    /\ LET r == create_all(metadata, tables)
       IN /\ tables' = IF r.err = "none" THEN r.tables ELSE tables
          /\ created' = r.created
          /\ initErr' = r.err
    /\ lastOp' = Called("init_db")
    /\ UNCHANGED <<task, load, metadata>>

\* The database may already hold tables of the entities.
InitSchema ==
    /\ pool = fresh_pool
    /\ task = [t \in Tasks |-> NoSession]
    /\ load = [opened |-> 0, holding |-> 0, orphaned |-> 0]
    /\ lastOp = Other
    /\ metadata = {}
    /\ tables \in SUBSET TableNames
    /\ created = {}
    /\ initErr = "none"

NextSchema ==
    \/ \E n \in TableNames : DeclareModel(n)
    \/ init_db
    \/ close_db

SpecSchema == InitSchema /\ [][NextSchema]_vars

----------------------------------------------------------------------------
(* Properties of get_db (Spec).                                            *)

Limit == pool_size + max_overflow

\* session.commit() and session.rollback() calls made in a scope so far.
Commits(s) == Count(s.log, "commit_ok") + Count(s.log, "commit_failed")
Rollbacks(s) == Count(s.log, "rollback_ok") + Count(s.log, "rollback_failed")
Closed(s) == Count(s.log, "close") >= 1
Has(s, e) == Count(s.log, e) >= 1
\* The scope has been left.
Exited(s) == s.pc = "done"

\* C1: a scope whose handler returned and in which no commit raised has
\* made exactly one commit, which succeeded, and no rollback; once left, its
\* session is closed and holds no connection (the connection is back in the
\* pool), and no error leaves get_db.
T1_CommitOnSuccess ==
    \A t \in Tasks :
        LET s == task[t] IN
        (Exited(s) /\ s.path = "return" /\ ~Has(s, "commit_failed")) =>
            /\ Commits(s) = 1
            /\ Has(s, "commit_ok")
            /\ Rollbacks(s) = 0
            /\ Closed(s)
            /\ s.conn = "none"
            /\ s.txn \in {"none", "committed"}
            /\ s.exc = "none"

\* A scope that used a connection was left after a successful commit, and
\* the connection lies idle in the pool.
W1_CommittedAndReturned ==
    \E t \in Tasks :
        /\ Exited(task[t])
        /\ task[t].path = "return"
        /\ task[t].txn = "committed"
        /\ pool.idle >= 1
        /\ checkedout(pool) = 0

\* C2 as stated: a scope whose handler raised has made exactly one rollback
\* and no commit, the error leaving get_db is the handler's, and the
\* connection is back.
CE2_CallerErrorAlwaysUnchanged ==
    \A t \in Tasks :
        LET s == task[t] IN
        (Exited(s) /\ s.path = "raise") =>
            /\ Rollbacks(s) = 1
            /\ Commits(s) = 0
            /\ s.exc = s.raised
            /\ Closed(s)
            /\ s.conn = "none"

\* C2, amended: a scope whose handler raised has made exactly one rollback
\* and no commit, it is closed and holds no connection; the error leaving
\* get_db is the handler's when the rollback succeeded, and the rollback's
\* own error when the rollback raised.
T2_RollbackOnCallerError ==
    \A t \in Tasks :
        LET s == task[t] IN
        (Exited(s) /\ s.path = "raise") =>
            /\ Rollbacks(s) = 1
            /\ Commits(s) = 0
            /\ Closed(s)
            /\ s.conn = "none"
            /\ s.txn \in {"none", "rolledback"}
            /\ s.raised \in CallerErrors
            /\ Has(s, "rollback_ok") => s.exc = s.raised
            /\ Has(s, "rollback_failed") => s.exc = "RollbackError"

\* A scope with an open transaction was left by the handler's ValueError,
\* rolled back, and the ValueError left get_db.
W2_RolledBackAndReraised ==
    \E t \in Tasks :
        /\ Exited(task[t])
        /\ task[t].path = "raise"
        /\ task[t].raised = "ValueError"
        /\ task[t].exc = "ValueError"
        /\ task[t].txn = "rolledback"
        /\ Has(task[t], "rollback_ok")

\* C3 as stated: on every exit path exactly one of commit and rollback has
\* been invoked on the session, never both and never neither.
CE3_ExactlyOneOfCommitRollback ==
    \A t \in Tasks :
        Exited(task[t]) => Commits(task[t]) + Rollbacks(task[t]) = 1

\* C3, amended: on every exit path at most one commit and at most one
\* rollback are invoked. A returning handler gives one commit, and one
\* rollback after it exactly when that commit raised; a raising handler
\* gives one rollback and no commit; cancellation and generator close give
\* neither, and close alone ends the transaction. No transaction is left
\* open, and none is rolled back after its commit succeeded.
T3_CommitRollbackPerExitPath ==
    \A t \in Tasks :
        LET s == task[t] IN
        Exited(s) =>
            /\ Commits(s) <= 1
            /\ Rollbacks(s) <= 1
            /\ s.path = "return" =>
                   /\ Commits(s) = 1
                   /\ Rollbacks(s) = Count(s.log, "commit_failed")
            /\ s.path = "raise" => (Commits(s) = 0 /\ Rollbacks(s) = 1)
            /\ s.path \in {"cancel", "aclose"} =>
                   (Commits(s) = 0 /\ Rollbacks(s) = 0)
            /\ s.txn \in {"none", "committed", "rolledback"}
            /\ Has(s, "commit_ok") => Rollbacks(s) = 0
            /\ s.txn = "committed" => Has(s, "commit_ok")

\* One scope with an open transaction was left by cancellation, with neither
\* call made; another was left after its commit raised, with both made.
W3_NeitherAndBoth ==
    \E t, u \in Tasks :
        /\ Exited(task[t]) /\ task[t].path = "cancel"
        /\ task[t].txn = "rolledback"
        /\ Commits(task[t]) + Rollbacks(task[t]) = 0
        /\ Exited(task[u]) /\ Has(task[u], "commit_failed")
        /\ Commits(task[u]) + Rollbacks(task[u]) = 2

\* C4: whatever the interleaving of request tasks, cancellations and
\* generator closes, the connections checked out of the engine's pool are
\* exactly those held by the sessions of open scopes; a scope that has been
\* left, by cancellation too, holds none; with every scope left none is
\* checked out.
T4_NoLeak ==
    /\ checkedout(pool) = Cardinality({t \in Tasks : task[t].conn = "cur"})
    /\ \A t \in Tasks : task[t].pc \in {"idle", "done"} => task[t].conn = "none"
    /\ (\A t \in Tasks : task[t].pc \in {"idle", "done"}) => checkedout(pool) = 0
    /\ \A t \in Tasks :
           (Exited(task[t]) /\ task[t].path = "cancel") => Closed(task[t])

\* A task was cancelled while its session held a connection and has left
\* the scope, while another task's session still holds one.
W4_CancelledWhileOtherHolds ==
    \E t, u \in Tasks :
        /\ t # u
        /\ Exited(task[t]) /\ task[t].path = "cancel"
        /\ task[t].txn = "rolledback"
        /\ task[u].conn = "cur" /\ task[u].pc = "yielded"
        /\ checkedout(pool) = 1

\* C5 as stated: once close_db has completed, get_db yields no session.
CE5_NoSessionAfterShutdown ==
    [][lastOp.op = "close_db" =>
          \A t \in Tasks : ~(task[t].pc = "idle" /\ task'[t].pc = "yielded")]_vars

\* C5, amended: close_db releases the idle connections and leaves the engine
\* usable, on a new and empty pool: right after it no connection is idle or
\* checked out, a checkout succeeds at once, and get_db can be called by
\* every task that is not in a scope.
T5_UsableAfterCloseDb ==
    lastOp.op = "close_db" =>
        /\ pool.idle = 0
        /\ checkedout(pool) = 0
        /\ QueuePoolGet(pool).ok
        /\ \A t \in Tasks : task[t].conn # "cur"
        /\ \A t \in Tasks : task[t].pc = "idle" => ENABLED get_db(t)

\* A session holds a connection checked out after a close_db: another
\* session still holds one of the pool that close_db disposed.
W5_SessionAfterCloseDb ==
    \E t, u \in Tasks :
        /\ task[t].conn = "orphan"
        /\ task[u].conn = "cur" /\ task[u].pc = "yielded"

CE10_CommitErrorAlwaysPropagates ==
    \A t \in Tasks :
        LET s == task[t] IN
        (Exited(s) /\ Has(s, "commit_failed")) =>
            /\ Rollbacks(s) = 1
            /\ s.exc = "CommitError"

\* C10, amended: after a commit that raised, get_db makes one rollback on
\* the same session and no second commit, and closes the session; the
\* commit's error leaves get_db when the rollback succeeded, and the
\* rollback's own error when the rollback raised.
T10_RollbackAfterFailedCommit ==
    \A t \in Tasks :
        LET s == task[t] IN
        (Exited(s) /\ Has(s, "commit_failed")) =>
            /\ s.path = "return"
            /\ Commits(s) = 1
            /\ Rollbacks(s) = 1
            /\ \E i \in DOMAIN s.log :
                   /\ s.log[i] = "commit_failed"
                   /\ i + 1 \in DOMAIN s.log
                   /\ s.log[i + 1] \in {"rollback_ok", "rollback_failed"}
            /\ Closed(s)
            /\ s.conn = "none"
            /\ s.txn # "committed"
            /\ Has(s, "rollback_ok") => s.exc = "CommitError"
            /\ Has(s, "rollback_failed") => s.exc = "RollbackError"

\* A scope with an open transaction whose commit raised was rolled back and
\* closed, and the commit's error left get_db.
W10_FailedCommitRolledBack ==
    \E t \in Tasks :
        /\ Exited(task[t])
        /\ task[t].log = <<"acquire", "commit_failed", "rollback_ok", "close", "close">>
        /\ task[t].exc = "CommitError"
        /\ task[t].txn = "rolledback"

----------------------------------------------------------------------------
(* Properties of the pool under load and of close_db (SpecPool).           *)

\* C6 as stated: the connections checked out by concurrent get_db scopes
\* never number more than pool_size + max_overflow.
CE6_HeldNeverExceedLimit == load.holding + load.orphaned <= Limit

\* C6, amended: the connections checked out of the engine's current pool
\* (those of scopes that checked out before a close_db not counted) are the
\* ones its scopes hold and never number more than pool_size +
\* max_overflow; while fewer are checked out a checkout succeeds at once,
\* and with that many checked out a checkout stays suspended, until a
\* holder releases or the pool timeout ends it.
T6_PoolBound ==
    /\ checkedout(pool) = load.holding
    /\ checkedout(pool) <= Limit
    /\ pool.idle \in 0..pool_size
    /\ pool.overflow <= max_overflow
    /\ checkedout(pool) < Limit => QueuePoolGet(pool).ok
    /\ checkedout(pool) = Limit => (~QueuePoolGet(pool).ok /\ ~ENABLED Checkout)
    /\ load.opened > 0 => (ENABLED Checkout \/ ENABLED PoolTimeout)
    /\ ENABLED PoolTimeout => checkedout(pool) = Limit

\* pool_size + max_overflow scopes hold a connection, none is idle, and one
\* more scope is suspended in its checkout.
W6_ExhaustedWithWaiter ==
    /\ checkedout(pool) = Limit
    /\ load.holding = Limit
    /\ pool.idle = 0
    /\ load.opened >= 1
    /\ load.orphaned = 0

\* C7: close_db can be called in every state, and a close_db called right
\* after a close_db changes nothing: the pool is the new, empty pool the
\* first call left, and the scopes are as they were.
T7_CloseDbIdempotent ==
    /\ [](ENABLED close_db)
    /\ [][(lastOp.op = "close_db" /\ lastOp'.op = "close_db") =>
             /\ pool' = pool
             /\ pool' = fresh_pool
             /\ load' = load
             /\ task' = task]_vars

\* close_db was called twice in succession while scopes held connections.
W7_ClosedTwice ==
    /\ lastOp = [op |-> "close_db", n |-> 2]
    /\ pool = fresh_pool
    /\ load.orphaned >= 2

----------------------------------------------------------------------------
(* Properties of init_db (SpecSchema).                                     *)

\* C8: whatever tables are registered and whatever tables exist, init_db
\* raises no error, issues CREATE TABLE for the registered tables that are
\* missing and for no other, and leaves the existing tables plus those; an
\* init_db called right after an init_db creates nothing and leaves the
\* same tables.
T8_InitDbIdempotent ==
    [][lastOp'.op = "init_db" =>
          /\ initErr' = "none"
          /\ created' = metadata \ tables
          /\ tables' = tables \cup metadata
          /\ lastOp.op = "init_db" => (created' = {} /\ tables' = tables)]_vars

\* init_db was called twice in succession with several tables registered,
\* in a database holding a table besides them.
W8_InitTwice ==
    /\ lastOp = [op |-> "init_db", n |-> 2]
    /\ Cardinality(metadata) >= 2
    /\ metadata \subseteq tables
    /\ tables # metadata
    /\ created = {}
    /\ initErr = "none"

====
